---- MODULE Spec2Model ----
(***************************************************************************)
(* Terrarium: a node.js host that runs submitted Python code in a Pyodide  *)
(* engine, one request at a time, and recycles the engine after each run.  *)
(*                                                                         *)
(* The model follows src/src/index.ts (init, runRequest, the POST handler) *)
(* and src/src/services/python-interpreter/service.ts (the                 *)
(* PyodidePythonEnvironment class, waitFor, locksByName, doWithLock).      *)
(* One action is the code between two awaits of one async function: node   *)
(* runs that code without interruption and may run anything else at the    *)
(* await.  An exception that leaves a function travels through its callers *)
(* in the same action (only promise reactions run in between).             *)
(*                                                                         *)
(* Texts are sequences of tokens, paths are sequences of segments, JSON    *)
(* objects are records whose DOMAIN is the set of keys that are present.   *)
(* File contents are not part of the filesystem model, only names are.     *)
(***************************************************************************)
EXTENDS Integers, Sequences, FiniteSets, TLC

(***************************************************************************)
(* Bounds of the model.                                                    *)
(***************************************************************************)
\* number of POST requests that arrive
NumReq == 3

(***************************************************************************)
(* Program constants.                                                      *)
(***************************************************************************)
\* service.ts:111  while (max_tries < 100 && this.pyodide == null)
MaxTries == 100

\* service.ts:8  const pythonEnvironmentHomeDir = "/home/earth"
pythonEnvironmentHomeDir == <<"home", "earth">>

\* index.ts:59  the one lock name the POST handler uses
PythonRequest == "python-request"

\* the files of default_python_home, which prepareEnvironment reads
SeedDirectory == {"seed.txt"}

Reqs == 1..NumReq

(***************************************************************************)
(* JSON objects.                                                           *)
(***************************************************************************)
\* x.k == undefined, for a key of a JSON object
IsUndefined(obj, k) == k \notin DOMAIN obj

\* obj.k = v
Put(obj, k, v) == [y \in DOMAIN obj \cup {k} |-> IF y = k THEN v ELSE obj[y]]

EmptyObject == <<>>

(***************************************************************************)
(* Paths of the engine's filesystem (emscripten PATH and FS).              *)
(***************************************************************************)
\* PATH.normalize of an absolute path: "." is dropped, ".." pops a segment
\* and stays at the root when there is none
RECURSIVE NormalizeFrom(_, _)
NormalizeFrom(stack, segs) ==
    IF segs = <<>> THEN stack
    ELSE LET s == Head(segs) IN
         IF s = "." THEN NormalizeFrom(stack, Tail(segs))
         ELSE IF s = ".."
              THEN NormalizeFrom(IF stack = <<>> THEN <<>>
                                 ELSE SubSeq(stack, 1, Len(stack) - 1), Tail(segs))
              ELSE NormalizeFrom(Append(stack, s), Tail(segs))

\* pyodide.PATH.join2(l, r) == PATH.normalize(l + "/" + r)
Join2(l, r) == NormalizeFrom(<<>>, l \o r)

Parent(p) == SubSeq(p, 1, Len(p) - 1)
BaseName(p) == p[Len(p)]

\* the filesystem of a fresh engine: the root and the home directory exist
FreshFS == [files |-> {}, dirs |-> {<<>>, <<"home">>, pythonEnvironmentHomeDir}]

\* FS.writeFile throws unless the parent is a directory and the path is none
CanWriteFile(fs, p) == /\ p # <<>>
                       /\ Parent(p) \in fs.dirs
                       /\ p \notin fs.dirs

\* FS.writeFile(p, data): creates or overwrites the file
WriteFile(fs, p) == [fs EXCEPT !.files = @ \cup {p}]

\* os.makedirs(p, exist_ok=True) of a directory right below an existing one
MkDir(fs, p) == [fs EXCEPT !.dirs = @ \cup {p}]

\* FS.readdir(dir) without "." and ".."
Entries(fs, dir) ==
    {p \in fs.files \cup fs.dirs : Len(p) = Len(dir) + 1 /\ Parent(p) = dir}

(***************************************************************************)
(* The engine (Pyodide).  An engine instance has a filesystem, the globals *)
(* of its interpreter, and what loadEnvironment has done to it so far.     *)
(***************************************************************************)
\* an instance nothing refers to any more
Discarded == [discarded |-> TRUE]

\* loadPyodide(...): a fresh instance
FreshEngine == [fs |-> FreshFS, globals |-> {}, packages |-> FALSE,
                interruptBuffer |-> FALSE, imported |-> FALSE, ran |-> FALSE]

\* Python statements of the submitted code, one token each:
\*   "wb" "ws" "wa"  write b.txt, seed.txt, a.txt in the current (home) directory
\*   "wd"            make directory d and write d/c.txt and d/seed.txt
\*   "v"             assign a global variable
\*   "p" "q"         print to stdout, to stderr
\*   "n" "N"         an expression: a small int, an int beyond 2^53
\*   "x"             raise an exception
\*   "h"             await something that never completes
\*   " " "\n"        whitespace
Whitespace == {" ", "\n"}

\* code.trim() == ""
TrimIsEmpty(code) == \A i \in 1..Len(code) : code[i] \in Whitespace

InHome(name) == pythonEnvironmentHomeDir \o <<name>>

\* the effect of one statement on the engine
ExecStatement(e, s) ==
    CASE s = "wb" -> [e EXCEPT !.fs = WriteFile(@, InHome("b.txt"))]
      [] s = "ws" -> [e EXCEPT !.fs = WriteFile(@, InHome("seed.txt"))]
      [] s = "wa" -> [e EXCEPT !.fs = WriteFile(@, InHome("a.txt"))]
      [] s = "wd" -> [e EXCEPT !.fs =
                         WriteFile(WriteFile(MkDir(@, InHome("d")),
                                             InHome("d") \o <<"c.txt">>),
                                   InHome("d") \o <<"seed.txt">>)]
      [] s = "v"  -> [e EXCEPT !.globals = @ \cup {"v"}]
      [] OTHER    -> e

\* the value of an expression statement as pyodide hands it to JavaScript:
\* a Python int is a Number, or a BigInt beyond Number.MAX_SAFE_INTEGER
ValueOf(s) == CASE s = "n" -> "number" [] s = "N" -> "bigint" [] OTHER -> "undefined"

\* The text of an error (error.toString()) is a sequence of pieces: plain
\* text, and traceback frames  File "<name>", line <digits>  whose line
\* number is a sequence of decimal digits.
Text(t) == [text |-> t]
Frame(name, digits) == [file |-> name, line |-> digits]
ExecFrame(digits) == Frame("<exec>", digits)

\* the decimal digits of a natural number
RECURSIVE ToDigits(_)
ToDigits(n) == IF n < 10 THEN <<n>> ELSE Append(ToDigits(n \div 10), n % 10)

\* the traceback of an exception raised by the submitted code at a line
Traceback(line) ==
    <<Text("PythonError: Traceback (most recent call last):"), ExecFrame(ToDigits(line)),
      Text("Exception")>>

\* pyodide.runPythonAsync(code): runs the statements in order until one raises
\* or never completes; the value is that of the last statement
RECURSIVE RunPython(_, _, _)
RunPython(e, code, acc) ==
    IF code = <<>> THEN [acc EXCEPT !.engine = e]
    ELSE LET s == Head(code) IN
         IF s = "x" THEN [acc EXCEPT !.engine = e, !.outcome = "raise", !.value = "undefined",
                                     !.message = Traceback(acc.line)]
         ELSE IF s = "h" THEN [acc EXCEPT !.engine = e, !.outcome = "hang", !.value = "undefined"]
         ELSE RunPython(ExecStatement(e, s), Tail(code),
                        [acc EXCEPT !.value = IF s \in Whitespace THEN @ ELSE ValueOf(s),
                                    !.out = IF s = "p" THEN Append(@, "p") ELSE @,
                                    !.err = IF s = "q" THEN Append(@, "q") ELSE @,
                                    !.line = IF s = "\n" THEN @ + 1 ELSE @])

RunPythonAsync(e, code) ==
    RunPython([e EXCEPT !.ran = TRUE], code,
              [engine |-> e, outcome |-> "ok", value |-> "undefined", out |-> <<>>, err |-> <<>>,
               line |-> 1, message |-> <<>>])

(***************************************************************************)
(* bytesToBase64 and base64ToBytes (service.ts:193-206).  Bytes are the    *)
(* numbers 0..255, a binary string is the sequence of its code points, a   *)
(* base64 text is a sequence of characters.                                *)
(***************************************************************************)
Alphabet ==
    <<"A", "B", "C", "D", "E", "F", "G", "H", "I", "J", "K", "L", "M", "N", "O", "P",
      "Q", "R", "S", "T", "U", "V", "W", "X", "Y", "Z", "a", "b", "c", "d", "e", "f",
      "g", "h", "i", "j", "k", "l", "m", "n", "o", "p", "q", "r", "s", "t", "u", "v",
      "w", "x", "y", "z", "0", "1", "2", "3", "4", "5", "6", "7", "8", "9", "+", "/">>
Digit64(n) == Alphabet[n + 1]
IsDigit64(c) == \E n \in 0..63 : Alphabet[n + 1] = c
Sextet(c) == CHOOSE n \in 0..63 : Alphabet[n + 1] = c

\* a conversion of bytes to characters that keeps seven bits
FromCodePointAscii(byte) == byte % 128

\* String.fromCodePoint(byte): the character with that code point
FromCodePoint(byte) == byte

\* Uint8Array.from(binString, m => m.codePointAt(0)): the code point of each
\* character, stored as an unsigned byte
ToUint8(codePoint) == codePoint % 256

\* btoa(binString) for characters up to U+00FF: three characters give four
\* digits, a last group of one or two characters is padded with "="
RECURSIVE Btoa(_)
Btoa(bin) ==
    IF Len(bin) = 0 THEN <<>>
    ELSE IF Len(bin) = 1
    THEN <<Digit64(bin[1] \div 4), Digit64((bin[1] % 4) * 16), "=", "=">>
    ELSE IF Len(bin) = 2
    THEN <<Digit64(bin[1] \div 4), Digit64((bin[1] % 4) * 16 + bin[2] \div 16),
           Digit64((bin[2] % 16) * 4), "=">>
    ELSE <<Digit64(bin[1] \div 4), Digit64((bin[1] % 4) * 16 + bin[2] \div 16),
           Digit64((bin[2] % 16) * 4 + bin[3] \div 64), Digit64(bin[3] % 64)>>
         \o Btoa(SubSeq(bin, 4, Len(bin)))

\* atob: the padding of a text of a multiple of four characters is removed
StripPadding(text) ==
    IF Len(text) % 4 = 0 /\ Len(text) > 0 /\ text[Len(text)] = "="
    THEN IF text[Len(text) - 1] = "=" THEN SubSeq(text, 1, Len(text) - 2)
         ELSE SubSeq(text, 1, Len(text) - 1)
    ELSE text

\* atob: the text is not base64 (InvalidCharacterError)
AtobThrows(text) ==
    LET data == StripPadding(text) IN
    \/ Len(data) % 4 = 1
    \/ \E i \in 1..Len(data) : ~IsDigit64(data[i])

\* atob: four digits give three characters, a last group of two or three
\* digits gives one or two and its spare bits are dropped
RECURSIVE DecodeDigits(_)
DecodeDigits(data) ==
    IF Len(data) < 2 THEN <<>>
    ELSE LET s1 == Sextet(data[1])
             s2 == Sextet(data[2]) IN
         IF Len(data) = 2 THEN <<s1 * 4 + s2 \div 16>>
         ELSE LET s3 == Sextet(data[3]) IN
              IF Len(data) = 3 THEN <<s1 * 4 + s2 \div 16, (s2 % 16) * 16 + s3 \div 4>>
              ELSE <<s1 * 4 + s2 \div 16, (s2 % 16) * 16 + s3 \div 4,
                     (s3 % 4) * 64 + Sextet(data[4])>>
                   \o DecodeDigits(SubSeq(data, 5, Len(data)))
Atob(text) == DecodeDigits(StripPadding(text))

\* service.ts:193-196
bytesToBase64(bytes) == Btoa([i \in 1..Len(bytes) |-> FromCodePoint(bytes[i])])

\* service.ts:203-206  (for a text atob accepts)
base64ToBytes(base64) == LET binString == Atob(base64) IN
                         [i \in 1..Len(binString) |-> ToUint8(binString[i])]

(***************************************************************************)
(* PyodidePythonEnvironment: listFilesRecursive and the parts of runCode.  *)
(***************************************************************************)
\* listFilesRecursive(dir): the files below dir, skipping at every level each
\* entry whose name is in default_file_names (service.ts:161)
RECURSIVE listFilesRecursive(_, _, _)
listFilesRecursive(fs, names, dir) ==
    LET kept == {p \in Entries(fs, dir) : BaseName(p) \notin names}
    IN  (kept \cap fs.files)
        \cup UNION {listFilesRecursive(fs, names, d) : d \in kept \cap fs.dirs}

\* f.slice(pythonEnvironmentHomeDir.length + 1)
RelativeToHome(p) == SubSeq(p, Len(pythonEnvironmentHomeDir) + 1, Len(p))

\* files.map(f => f.filename): the filenames that are defined
InputFileNames(files) ==
    {files[i].filename : i \in {j \in 1..Len(files) : ~IsUndefined(files[j], "filename")}}

\* service.ts:221  the entry lacks a filename or a payload
IsMalformed(f) == IsUndefined(f, "filename") \/ IsUndefined(f, "b64_data")

\* service.ts:222-223  what the callback does to result for a malformed entry
MarkMalformed(result, f) ==
    Put(Put(result, "success", FALSE),
        "error", [type |-> "parsing", message |-> <<"file data is missing for: ", f>>])

\* service.ts:220-228  files.forEach(...): `return result` leaves the callback,
\* not runCode, so the loop goes on with the next entry; writeFile may throw
RECURSIVE WriteInputFiles(_, _, _)
WriteInputFiles(files, fs, result) ==
    IF files = <<>> THEN [fs |-> fs, result |-> result, thrown |-> FALSE]
    ELSE LET f == Head(files) IN
         IF IsMalformed(f)
         THEN WriteInputFiles(Tail(files), fs, MarkMalformed(result, f))
         ELSE LET p == Join2(pythonEnvironmentHomeDir, f.filename) IN
              IF CanWriteFile(fs, p)
              THEN WriteInputFiles(Tail(files), WriteFile(fs, p), result)
              ELSE [fs |-> fs, result |-> result, thrown |-> TRUE]

\* errorMsg.match(/File "<exec>", line (\d+)/): the index of the first
\* matching frame, 0 when there is none
IsExecFrame(piece) == "file" \in DOMAIN piece /\ piece.file = "<exec>"
LineMatch(errorMsg) ==
    IF \E i \in 1..Len(errorMsg) : IsExecFrame(errorMsg[i])
    THEN CHOOSE i \in 1..Len(errorMsg) :
             /\ IsExecFrame(errorMsg[i])
             /\ \A j \in 1..(i - 1) : ~IsExecFrame(errorMsg[j])
    ELSE 0

\* parseInt of a string of decimal digits
RECURSIVE ParseInt(_)
ParseInt(digits) ==
    IF digits = <<>> THEN 0
    ELSE 10 * ParseInt(SubSeq(digits, 1, Len(digits) - 1)) + digits[Len(digits)]

\* code.split("\n"): the lines of the code, at least one
RECURSIVE Split(_, _, _)
Split(code, lines, current) ==
    IF code = <<>> THEN Append(lines, current)
    ELSE IF Head(code) = "\n" THEN Split(Tail(code), Append(lines, current), <<>>)
    ELSE Split(Tail(code), lines, Append(current, Head(code)))
SplitLines(code) == Split(code, <<>>, <<>>)

Max(a, b) == IF a > b THEN a ELSE b
Min(a, b) == IF a < b THEN a ELSE b

\* Array.prototype.slice(begin, end) for 0 <= begin: the elements at the
\* 0-based indices begin .. end-1 that exist
Slice(arr, begin, end) == SubSeq(arr, begin + 1, Min(end, Len(arr)))

\* a context window that starts one line late
CodeContextLate(codeLines, lineNum) ==
    LET startLine == Max(1, lineNum - 4)
        endLine   == Min(Len(codeLines), lineNum + 4)
        window    == Slice(codeLines, startLine, endLine)
    IN [idx \in 1..Len(window) |-> [number |-> startLine + (idx - 1), line |-> window[idx]]]

\* service.ts:274-277  the numbered lines around lineNum
CodeContext(codeLines, lineNum) ==
    LET startLine == Max(1, lineNum - 4)
        endLine   == Min(Len(codeLines), lineNum + 4)
        window    == Slice(codeLines, startLine - 1, endLine)
    IN [idx \in 1..Len(window) |-> [number |-> startLine + (idx - 1), line |-> window[idx]]]

\* arr.join("\n") of the numbered lines
RECURSIVE JoinLines(_)
JoinLines(entries) ==
    IF entries = <<>> THEN <<>>
    ELSE IF Len(entries) = 1 THEN entries
    ELSE <<Head(entries), Text("\n")>> \o JoinLines(Tail(entries))

\* service.ts:267-280  the error's text, with the code context when the
\* text cites a line of the submitted code
Enrich(code, errorMsg) ==
    LET lineMatch == LineMatch(errorMsg) IN
    IF lineMatch # 0
    THEN errorMsg \o <<Text("\n\nCode context:\n")>>
                  \o JoinLines(CodeContext(SplitLines(code), ParseInt(errorMsg[lineMatch].line)))
    ELSE errorMsg

\* service.ts:265-287  the catch block: error and success=false
\* (msg is the error's text; errType is error.type, which only a Python
\* error has: JSON.stringify leaves an undefined type out)
Caught(result, errType, msg) ==
    Put(Put(result, "error", IF errType = "undefined" THEN [message |-> msg]
                             ELSE [type |-> errType, message |-> msg]),
        "success", FALSE)

\* service.ts:238-263  after the code has run: the new files, the final
\* expression, success=true
NewFiles(fs, names, files) ==
    {RelativeToHome(p) : p \in
        {q \in listFilesRecursive(fs, names, pythonEnvironmentHomeDir) :
            RelativeToHome(q) \notin InputFileNames(files)}}

Succeeded(result, fs, names, files, value) ==
    LET r1 == Put(result, "output_files", NewFiles(fs, names, files))
        r2 == IF value = "undefined" THEN r1 ELSE Put(r1, "final_expression", value)
    IN  Put(r2, "success", TRUE)

\* service.ts:289-292  std_out and std_err (code_runtime, a wall-clock
\* difference, is left out)
WithOutput(result, out, err) == Put(Put(result, "std_out", out), "std_err", err)

\* index.ts:43  JSON.stringify(result) throws a TypeError on a BigInt
Serializable(result) ==
    IsUndefined(result, "final_expression") \/ result.final_expression # "bigint"

(***************************************************************************)
(* Request bodies.                                                         *)
(***************************************************************************)
FileA == [filename |-> <<"a.txt">>, b64_data |-> "QQ=="]
FileC == [filename |-> <<"c.txt">>, b64_data |-> "Qw=="]
NoFilename == [b64_data |-> "QQ=="]
NoPayload == [filename |-> <<"a.txt">>]
FileDotA == [filename |-> <<".", "a.txt">>, b64_data |-> "QQ=="]
FileEscape == [filename |-> <<"..", "e.txt">>, b64_data |-> "QQ=="]
FileInSub == [filename |-> <<"sub", "a.txt">>, b64_data |-> "QQ=="]

Codes == { <<>>, <<" ", "\n">>, <<"v", "wb", "n">>, <<"wb", "x">>, <<"N">>, <<"h">>,
           <<"ws", "wa", "wd", "p">> }

FileLists == { <<FileA>>, <<FileA, NoFilename, FileC>>, <<NoPayload>>, <<FileDotA>>,
               <<FileEscape>>, <<FileInSub>> }

\* req.body: code and files are both optional
Bodies == {EmptyObject} \cup {[code |-> c] : c \in Codes}
          \cup {[files |-> fl] : fl \in {<<FileA>>}}
          \cup {[code |-> c, files |-> fl] : c \in Codes, fl \in FileLists}

\* the bodies the requests to the server carry
ServerBodies == { EmptyObject,
                  [code |-> <<" ", "\n">>],
                  [code |-> <<"v", "p", "wb", "n">>, files |-> <<FileA>>],
                  [code |-> <<"wb", "x">>],
                  [code |-> <<"N">>],
                  [code |-> <<"p", "q", "N">>],
                  [code |-> <<"h">>],
                  [code |-> <<"wb">>, files |-> <<NoPayload>>] }

FilesOf(b) == IF IsUndefined(b, "files") THEN <<>> ELSE b.files

(***************************************************************************)
(* The state.                                                              *)
(***************************************************************************)
VARIABLES
    default_files,      \* service.ts:14  the files read from the seed directory
    default_file_names, \* service.ts:15
    engines,            \* every instance loadPyodide has returned, oldest first
    thisPyodide,        \* service.ts:17  this.pyodide: an index of engines, 0 = undefined
    interrupt,          \* service.ts:19  this.interrupt[0]
    out_string,         \* service.ts:12
    err_string,         \* service.ts:13
    locksByName,        \* service.ts:313 lock name -> the lock tokens, oldest first
    unlocked,           \* the lock tokens (promises) whose unlock() has been called
    initpc,             \* where init() (index.ts:10) stands
    initLocal,          \* loadEnvironment's local `pyodide` (service.ts:85) inside init()
    pc,                 \* where each request's handler stands
    predecessorLock,    \* service.ts:354 the token a request awaits
    max_tries,          \* service.ts:110
    body,               \* req.body
    result,             \* service.ts:212 runCode's result
    local,              \* the local `pyodide` of runCode (service.ts:211) and of cleanup's loadEnvironment (service.ts:85)
    interp,             \* how the pending runPythonAsync(code) has ended
    response,           \* the chunks written to res, in order
    ended,              \* res is closed (res.send or res.end)
    calls,              \* the PythonEnvironment methods runRequest has called, in order
    lockNameOf,         \* service.ts:327 the lockName argument of each doWithLock call
    codec               \* a conversion of bytes to base64 and back: its step, argument and results

vars == <<default_files, default_file_names, engines, thisPyodide, interrupt, out_string,
          err_string, locksByName, unlocked, initpc, initLocal, pc, predecessorLock,
          max_tries, body, result, local, interp, response, ended, calls, lockNameOf, codec>>

sideVars == <<lockNameOf, codec>>
hostVars == <<default_files, default_file_names>>
engineVars == <<engines, thisPyodide, interrupt, out_string, err_string>>
lockVars == <<locksByName, unlocked>>
initVars == <<initpc, initLocal>>

NoInterp == [outcome |-> "none", value |-> "undefined", message |-> <<>>]

\* index.ts:8-10 and 57-69: the environment is constructed, init() has been
\* called and has not got past its first await, the server listens
IdleCodec == [pc |-> "idle", bytes |-> <<>>, base64 |-> <<>>, decoded |-> <<>>]

\* index.ts:8  the server is constructed, nothing has run yet
Constructed ==
    /\ default_files = {}
    /\ default_file_names = {}
    /\ engines = <<>>
    /\ thisPyodide = 0
    /\ interrupt = 0
    /\ out_string = <<>>
    /\ err_string = <<>>
    /\ locksByName = EmptyObject
    /\ unlocked = {}
    /\ initpc = "prepareEnvironment"
    /\ initLocal = 0
    /\ pc = [r \in Reqs |-> "new"]
    /\ predecessorLock = [r \in Reqs |-> 0]
    /\ max_tries = [r \in Reqs |-> 0]
    /\ body = [r \in Reqs |-> EmptyObject]
    /\ result = [r \in Reqs |-> EmptyObject]
    /\ local = [r \in Reqs |-> 0]
    /\ interp = [r \in Reqs |-> NoInterp]
    /\ response = [r \in Reqs |-> <<>>]
    /\ ended = [r \in Reqs |-> FALSE]
    /\ calls = [r \in Reqs |-> <<>>]

\* index.ts:58  every call of doWithLock names the lock python-request
Init ==
    /\ Constructed
    /\ lockNameOf = [r \in Reqs |-> PythonRequest]
    /\ codec = IdleCodec

(***************************************************************************)
(* loadEnvironment (service.ts:35-100), in its four parts.  init() and     *)
(* cleanup() both go through them.                                         *)
(***************************************************************************)
\* service.ts:37-40  up to the call of loadPyodide
\* a loadEnvironment that leaves the interrupt flag as it is
LoadEnvironmentBeginKeepsInterrupt ==
    /\ interrupt' = interrupt
    /\ out_string' = <<>>
    /\ err_string' = <<>>

LoadEnvironmentBegin ==
    /\ interrupt' = 0
    /\ out_string' = <<>>
    /\ err_string' = <<>>

\* a loadEnvironment that leaves the new filesystem as it is
WriteNoDefaultFiles(fs) == fs

\* service.ts:87-89  the default files written into the home directory
WriteDefaultFiles(fs) ==
    [fs EXCEPT !.files = @ \cup {Join2(pythonEnvironmentHomeDir, <<f.filename>>) : f \in default_files}]

\* service.ts:40, 85-91  loadPyodide has resolved: this.pyodide is the new
\* instance, the default files are written, loadPackage is called
LoadEnvironmentBooted ==
    /\ engines' = Append([i \in 1..Len(engines) |->
                             IF initpc # "done" /\ i = initLocal THEN engines[i]
                             ELSE Discarded],
                         [FreshEngine EXCEPT !.fs = WriteDefaultFiles(@)])
    /\ thisPyodide' = Len(engines) + 1

\* service.ts:91-97  loadPackage has resolved: the interrupt buffer is set
\* and the imports are started, on the instance the local `pyodide` names
LoadEnvironmentPackages(inst) ==
    engines' = [engines EXCEPT ![inst].packages = TRUE, ![inst].interruptBuffer = TRUE]

\* service.ts:97-99  the imports have run
LoadEnvironmentImported(inst) ==
    engines' = [engines EXCEPT ![inst].imported = TRUE]

(***************************************************************************)
(* init() (index.ts:10, service.ts:102-105).                               *)
(***************************************************************************)
\* service.ts:21-33 prepareEnvironment, then loadEnvironment up to loadPyodide
InitPrepared ==
    /\ initpc = "prepareEnvironment"
    /\ default_files' = {[filename |-> n] : n \in SeedDirectory}
    /\ default_file_names' = SeedDirectory
    /\ LoadEnvironmentBegin
    /\ initpc' = "loadPyodide"
    /\ UNCHANGED <<sideVars, engines, thisPyodide, lockVars, initLocal, pc, predecessorLock,
                   max_tries, body, result, local, interp, response, ended, calls>>

InitBooted ==
    /\ initpc = "loadPyodide"
    /\ LoadEnvironmentBooted
    /\ initLocal' = Len(engines) + 1
    /\ initpc' = "loadPackage"
    /\ UNCHANGED <<sideVars, hostVars, interrupt, out_string, err_string, lockVars, pc,
                   predecessorLock, max_tries, body, result, local, interp, response,
                   ended, calls>>

InitPackages ==
    /\ initpc = "loadPackage"
    /\ LoadEnvironmentPackages(initLocal)
    /\ initpc' = "imports"
    /\ UNCHANGED <<sideVars, hostVars, thisPyodide, interrupt, out_string, err_string, lockVars,
                   initLocal, pc, predecessorLock, max_tries, body, result, local,
                   interp, response, ended, calls>>

InitImported ==
    /\ initpc = "imports"
    /\ IF thisPyodide = initLocal
       THEN LoadEnvironmentImported(initLocal)
       ELSE engines' = [engines EXCEPT ![initLocal] = Discarded]
    /\ initpc' = "done"
    /\ UNCHANGED <<sideVars, hostVars, thisPyodide, interrupt, out_string, err_string, lockVars,
                   initLocal, pc, predecessorLock, max_tries, body, result, local,
                   interp, response, ended, calls>>

(***************************************************************************)
(* doWithLock (service.ts:327-371).  A lock token is the number of the     *)
(* request that created it.                                                *)
(***************************************************************************)
\* service.ts:329-335  locksByName[lockName], made empty when absent
\* a registry that keeps one queue for all lock names
LocksOfAny(lockName) ==
    IF DOMAIN locksByName = {} THEN <<>>
    ELSE locksByName[CHOOSE n \in DOMAIN locksByName : TRUE]

LocksOf(lockName) ==
    IF lockName \in DOMAIN locksByName THEN locksByName[lockName] ELSE <<>>

\* a doWithLock that never waits
IsFirstAlways(locks) == TRUE

\* service.ts:338
IsFirst(locks) == Len(locks) = 0

\* a doWithLock that awaits the running task's lock instead of its predecessor's
PredecessorOfHead(locks) == locks[1]

\* service.ts:354  locks[locks.length - 2], after the push
PredecessorOf(locks) == locks[Len(locks) - 1]

\* a finally block that empties the queue of the lock name
SpliceAll(locks) == <<>>

\* service.ts:366  locks.splice(0, 1)
Splice01(locks) == IF locks = <<>> THEN locks ELSE Tail(locks)

\* a finally block that deletes the registry entry of an emptied queue
FinallyDeletesEntry(lockName, r) ==
    /\ locksByName' =
           IF Splice01(locksByName[lockName]) = <<>>
           THEN [n \in DOMAIN locksByName \ {lockName} |-> locksByName[n]]
           ELSE [locksByName EXCEPT ![lockName] = Splice01(@)]
    /\ unlocked' = unlocked \cup {r}

\* a finally block that forgets to unlock
FinallyKeepsLocked(lockName, r) ==
    /\ locksByName' = [locksByName EXCEPT ![lockName] = Splice01(@)]
    /\ UNCHANGED unlocked

\* service.ts:364-370  the finally block: the first token is removed and the
\* task's own lock is unlocked
Finally(lockName, r) ==
    /\ locksByName' = [locksByName EXCEPT ![lockName] = Splice01(@)]
    /\ unlocked' = unlocked \cup {r}

\* the request and the locals of runRequest, runCode and loadEnvironment are
\* gone once the handler is left
Forget(r) ==
    /\ body' = [body EXCEPT ![r] = EmptyObject]
    /\ result' = [result EXCEPT ![r] = EmptyObject]
    /\ local' = [local EXCEPT ![r] = 0]
    /\ interp' = [interp EXCEPT ![r] = NoInterp]

\* the task (runRequest) has returned: doWithLock and the handler return
Returns(r) ==
    /\ pc' = [pc EXCEPT ![r] = "done"]
    /\ Finally(PythonRequest, r)
    /\ Forget(r)

\* a doWithLock that unlocks after the task without a finally block
ThrowsWithoutFinally(r) ==
    /\ pc' = [pc EXCEPT ![r] = "rejected"]
    /\ UNCHANGED lockVars
    /\ Forget(r)

\* an exception has left the task: doWithLock's finally runs, the error is
\* thrown on (service.ts:363) and the handler's promise is rejected
Throws(r) ==
    /\ pc' = [pc EXCEPT ![r] = "rejected"]
    /\ Finally(PythonRequest, r)
    /\ Forget(r)

(***************************************************************************)
(* runRequest (index.ts:19-55) under the POST handler (index.ts:57-60).    *)
(***************************************************************************)
\* index.ts:20-23, service.ts:107-112  runRequest up to its first await:
\* waitForReady is called and either finds this.pyodide or starts to poll.
\* The request's body is fixed from here on.
StartTask(r) ==
    /\ \E b \in ServerBodies : body' = [body EXCEPT ![r] = b]
    /\ calls' = [calls EXCEPT ![r] = Append(@, "waitForReady")]
    /\ max_tries' = [max_tries EXCEPT ![r] = 0]
    /\ pc' = [pc EXCEPT ![r] = IF thisPyodide = 0 THEN "polling" ELSE "ready"]

\* index.ts:57-59, service.ts:327-361  a POST request arrives; requests are
\* numbered in the order of their arrival
Arrive(r) ==
    /\ pc[r] = "new"
    /\ \A q \in Reqs : q < r => pc[q] # "new"
    /\ LET locks == Append(LocksOf(PythonRequest), r) IN
       /\ locksByName' = Put(locksByName, PythonRequest, locks)
       /\ IF IsFirst(LocksOf(PythonRequest))
          THEN StartTask(r) /\ UNCHANGED predecessorLock
          ELSE /\ predecessorLock' = [predecessorLock EXCEPT ![r] = PredecessorOf(locks)]
               /\ pc' = [pc EXCEPT ![r] = "awaitPredecessor"]
               /\ UNCHANGED <<body, calls, max_tries>>
    /\ UNCHANGED <<sideVars, hostVars, engineVars, unlocked, initVars, result, local, interp,
                   response, ended>>

\* service.ts:355-361  the predecessor's lock is unlocked: the task starts
Resume(r) ==
    /\ pc[r] = "awaitPredecessor"
    /\ predecessorLock[r] \in unlocked
    /\ StartTask(r)
    /\ UNCHANGED <<sideVars, hostVars, engineVars, lockVars, initVars, predecessorLock, result,
                   local, interp, response, ended>>

\* a variant of the loop condition without the bound on the number of tries
KeepPollingUnbounded(tries, py) == py = 0

\* service.ts:112  the condition of the while loop of waitForReady
KeepPolling(tries, py) == tries < MaxTries /\ py = 0

\* service.ts:112-123  one waitFor(100) has elapsed (max_tries is a local of
\* waitForReady: it is gone when the loop is left)
Poll(r) ==
    /\ pc[r] = "polling"
    /\ IF KeepPolling(max_tries[r] + 1, thisPyodide)
       THEN /\ max_tries' = [max_tries EXCEPT ![r] = @ + 1]
            /\ UNCHANGED <<pc, lockVars, body, result, local, interp>>
       ELSE /\ max_tries' = [max_tries EXCEPT ![r] = 0]
            /\ IF thisPyodide = 0
               THEN Throws(r)
               ELSE /\ pc' = [pc EXCEPT ![r] = "ready"]
                    /\ UNCHANGED <<lockVars, body, result, local, interp>>
    /\ UNCHANGED <<sideVars, hostVars, engineVars, initVars, predecessorLock, response, ended, calls>>

\* index.ts:30
ParsingReply == [success |-> FALSE, error |-> [type |-> "parsing", message |-> "no code provided"]]

\* a check of the code that forgets to trim
NoCodeUntrimmed(b) == IsUndefined(b, "code") \/ b.code = <<>>

\* index.ts:29
NoCode(b) == IsUndefined(b, "code") \/ TrimIsEmpty(b.code)

\* index.ts:37  f.b64_data.slice(0, 10) is a TypeError when b64_data is undefined
LogThrows(b) == \E i \in 1..Len(FilesOf(b)) : IsUndefined(FilesOf(b)[i], "b64_data")

\* index.ts:28-40, service.ts:209-215  waitForReady has resolved: the body is
\* parsed and runCode is called, which awaits loadPackagesFromImports
AfterReady(r) ==
    /\ pc[r] = "ready"
    /\ IF NoCode(body[r])
       THEN /\ response' = [response EXCEPT ![r] = Append(@, ParsingReply)]
            /\ ended' = [ended EXCEPT ![r] = TRUE]
            /\ Returns(r)
            /\ UNCHANGED calls
       ELSE IF LogThrows(body[r])
            THEN Throws(r) /\ UNCHANGED <<calls, response, ended>>
            ELSE /\ calls' = [calls EXCEPT ![r] = Append(@, "runCode")]
                 /\ result' = [result EXCEPT ![r] = [success |-> TRUE]]
                 /\ local' = [local EXCEPT ![r] = thisPyodide]
                 /\ pc' = [pc EXCEPT ![r] = "loadPackagesFromImports"]
                 /\ UNCHANGED <<response, ended, lockVars, body, interp>>
    /\ UNCHANGED <<sideVars, hostVars, engineVars, initVars, predecessorLock, max_tries>>

\* service.ts:216-234  the input files are written and runPythonAsync(code) is
\* called; a writeFile that throws goes to the catch block (service.ts:265-292)
WriteInputs(r) ==
    /\ pc[r] = "loadPackagesFromImports"
    /\ LET w == WriteInputFiles(FilesOf(body[r]), engines[local[r]].fs, result[r]) IN
       /\ engines' = [engines EXCEPT ![local[r]].fs = w.fs]
       /\ IF w.thrown
          THEN /\ result' = [result EXCEPT ![r] =
                     WithOutput(Caught(w.result, "undefined",
                                      Enrich(body[r].code, <<Text("ErrnoError: FS error")>>)),
                                out_string, err_string)]
               /\ pc' = [pc EXCEPT ![r] = "haveResult"]
          ELSE /\ result' = [result EXCEPT ![r] = w.result]
               /\ pc' = [pc EXCEPT ![r] = "runPythonAsync"]
    /\ UNCHANGED <<sideVars, hostVars, thisPyodide, interrupt, out_string, err_string, lockVars,
                   initVars, predecessorLock, max_tries, body, local, interp, response,
                   ended, calls>>

\* service.ts:234  the engine runs the submitted code; with the interrupt
\* buffer installed and the interrupt set it raises KeyboardInterrupt at once
PythonRuns(r) ==
    /\ pc[r] = "runPythonAsync"
    /\ LET e == engines[local[r]]
           x == IF e.interruptBuffer /\ interrupt = 1
                THEN [engine |-> e, outcome |-> "raise", value |-> "undefined",
                      out |-> <<>>, err |-> <<>>,
                      message |-> <<Text("PythonError: KeyboardInterrupt")>>]
                ELSE RunPythonAsync(e, body[r].code)
       IN /\ engines' = [engines EXCEPT ![local[r]] = x.engine]
          /\ out_string' = out_string \o x.out
          /\ err_string' = err_string \o x.err
          /\ interp' = [interp EXCEPT ![r] = [outcome |-> x.outcome, value |-> x.value,
                                              message |-> x.message]]
          /\ pc' = [pc EXCEPT ![r] = IF x.outcome = "hang" THEN "hung" ELSE "ranPython"]
    /\ UNCHANGED <<sideVars, hostVars, thisPyodide, interrupt, lockVars, initVars, predecessorLock,
                   max_tries, body, result, local, response, ended, calls>>

\* service.ts:234-292  runPythonAsync has settled: the output files are
\* collected, or the error is caught; runCode returns its result
Collect(r) ==
    /\ pc[r] = "ranPython"
    /\ result' = [result EXCEPT ![r] =
          WithOutput(IF interp[r].outcome = "ok"
                     THEN Succeeded(@, engines[thisPyodide].fs, default_file_names,
                                    FilesOf(body[r]), interp[r].value)
                     ELSE Caught(@, "PythonError", Enrich(body[r].code, interp[r].message)),
                     out_string, err_string)]
    /\ pc' = [pc EXCEPT ![r] = "haveResult"]
    /\ UNCHANGED <<sideVars, hostVars, engineVars, lockVars, initVars, predecessorLock, max_tries,
                   body, local, interp, response, ended, calls>>

\* index.ts:43-50, service.ts:125-128  the result is written to the response
\* and terminate() is called; JSON.stringify may throw
WriteResult(r) ==
    /\ pc[r] = "haveResult"
    /\ IF Serializable(result[r])
       THEN /\ response' = [response EXCEPT ![r] = Append(@, result[r])]
            /\ calls' = [calls EXCEPT ![r] = Append(@, "terminate")]
            /\ interrupt' = 1
            /\ pc' = [pc EXCEPT ![r] = "terminate"]
            /\ UNCHANGED lockVars
            /\ UNCHANGED <<body, result, local, interp>>
       ELSE Throws(r) /\ UNCHANGED <<response, calls, interrupt>>
    /\ UNCHANGED <<sideVars, hostVars, engines, thisPyodide, out_string, err_string, initVars,
                   predecessorLock, max_tries, ended>>

\* index.ts:51, service.ts:129-130, 35-40  cleanup() is called
Cleanup(r) ==
    /\ pc[r] = "terminate"
    /\ calls' = [calls EXCEPT ![r] = Append(@, "cleanup")]
    /\ LoadEnvironmentBegin
    /\ pc' = [pc EXCEPT ![r] = "loadPyodide"]
    /\ UNCHANGED <<sideVars, hostVars, engines, thisPyodide, lockVars, initVars, predecessorLock,
                   max_tries, body, result, local, interp, response, ended>>

CleanupBooted(r) ==
    /\ pc[r] = "loadPyodide"
    /\ LoadEnvironmentBooted
    /\ local' = [local EXCEPT ![r] = Len(engines) + 1]
    /\ pc' = [pc EXCEPT ![r] = "loadPackage"]
    /\ UNCHANGED <<sideVars, hostVars, interrupt, out_string, err_string, lockVars, initVars,
                   predecessorLock, max_tries, body, result, interp, response, ended, calls>>

CleanupPackages(r) ==
    /\ pc[r] = "loadPackage"
    /\ LoadEnvironmentPackages(local[r])
    /\ pc' = [pc EXCEPT ![r] = "imports"]
    /\ UNCHANGED <<sideVars, hostVars, thisPyodide, interrupt, out_string, err_string, lockVars,
                   initVars, predecessorLock, max_tries, body, result, local, interp,
                   response, ended, calls>>

\* service.ts:97-99, index.ts:54  cleanup() has resolved: the response is
\* closed, runRequest returns and the lock is released
CleanupDone(r) ==
    /\ pc[r] = "imports"
    /\ LoadEnvironmentImported(local[r])
    /\ ended' = [ended EXCEPT ![r] = TRUE]
    /\ Returns(r)
    /\ UNCHANGED <<sideVars, hostVars, thisPyodide, interrupt, out_string, err_string, initVars,
                   predecessorLock, max_tries, response, calls>>

Next ==
    \/ InitPrepared
    \/ InitBooted
    \/ InitPackages
    \/ InitImported
    \/ \E r \in Reqs : Arrive(r)
    \/ \E r \in Reqs : Resume(r)
    \/ \E r \in Reqs : Poll(r)
    \/ \E r \in Reqs : AfterReady(r)
    \/ \E r \in Reqs : WriteInputs(r)
    \/ \E r \in Reqs : PythonRuns(r)
    \/ \E r \in Reqs : Collect(r)
    \/ \E r \in Reqs : WriteResult(r)
    \/ \E r \in Reqs : Cleanup(r)
    \/ \E r \in Reqs : CleanupBooted(r)
    \/ \E r \in Reqs : CleanupPackages(r)
    \/ \E r \in Reqs : CleanupDone(r)

Spec == Init /\ [][Next]_vars

(***************************************************************************)
(* One call of runCode on a ready engine, for every body: the state after  *)
(* init() has finished and the first request has found this.pyodide.       *)
(***************************************************************************)
ReadyEngine == [FreshEngine EXCEPT !.fs.files = {InHome(n) : n \in SeedDirectory},
                                   !.packages = TRUE, !.interruptBuffer = TRUE,
                                   !.imported = TRUE]

InitRun ==
    /\ default_files = {[filename |-> n] : n \in SeedDirectory}
    /\ default_file_names = SeedDirectory
    /\ engines = <<ReadyEngine>>
    /\ thisPyodide = 1
    /\ interrupt = 0
    /\ out_string = <<>>
    /\ err_string = <<>>
    /\ locksByName = [n \in {PythonRequest} |-> <<1>>]
    /\ unlocked = {}
    /\ initpc = "done"
    /\ initLocal = 1
    /\ pc = [r \in Reqs |-> IF r = 1 THEN "ready" ELSE "new"]
    /\ predecessorLock = [r \in Reqs |-> 0]
    /\ max_tries = [r \in Reqs |-> 0]
    /\ \E b \in Bodies : body = [r \in Reqs |-> IF r = 1 THEN b ELSE EmptyObject]
    /\ result = [r \in Reqs |-> EmptyObject]
    /\ local = [r \in Reqs |-> 0]
    /\ interp = [r \in Reqs |-> NoInterp]
    /\ response = [r \in Reqs |-> <<>>]
    /\ ended = [r \in Reqs |-> FALSE]
    /\ calls = [r \in Reqs |-> IF r = 1 THEN <<"waitForReady">> ELSE <<>>]
    /\ lockNameOf = [r \in Reqs |-> PythonRequest]
    /\ codec = IdleCodec

NextRun ==
    \/ AfterReady(1)
    \/ WriteInputs(1)
    \/ PythonRuns(1)
    \/ Collect(1)

SpecRun == InitRun /\ [][NextRun]_vars

(***************************************************************************)
(* doWithLock (service.ts:327-371) on its own: the callers, numbered in    *)
(* the order of their calls, name any of several locks; a task is some     *)
(* async function that returns, throws or never settles.                   *)
(***************************************************************************)
LockNames == {PythonRequest, "another-lock"}

InitLock ==
    /\ Constructed
    /\ lockNameOf \in [Reqs -> LockNames]
    /\ codec = IdleCodec

\* service.ts:360  task() is called; its promise will settle or never will
TaskStarts(c) == \E p \in {"task", "hung"} : pc' = [pc EXCEPT ![c] = p]

\* service.ts:327-356  doWithLock up to its first await
Call(c) ==
    /\ pc[c] = "new"
    /\ \A q \in Reqs : q < c => pc[q] # "new"
    /\ LET locks == Append(LocksOf(lockNameOf[c]), c) IN
       /\ locksByName' = Put(locksByName, lockNameOf[c], locks)
       /\ IF IsFirst(LocksOf(lockNameOf[c]))
          THEN TaskStarts(c) /\ UNCHANGED predecessorLock
          ELSE /\ predecessorLock' = [predecessorLock EXCEPT ![c] = PredecessorOf(locks)]
               /\ pc' = [pc EXCEPT ![c] = "awaitPredecessor"]
    /\ UNCHANGED <<hostVars, engineVars, unlocked, initVars, max_tries, body, result, local,
                   interp, response, ended, calls, sideVars>>

\* service.ts:355-360  the awaited lock is unlocked: the task is called
TaskResume(c) ==
    /\ pc[c] = "awaitPredecessor"
    /\ predecessorLock[c] \in unlocked
    /\ TaskStarts(c)
    /\ UNCHANGED <<hostVars, engineVars, lockVars, initVars, predecessorLock, max_tries, body,
                   result, local, interp, response, ended, calls, sideVars>>

\* service.ts:360-370  the task's promise is fulfilled
TaskReturns(c) ==
    /\ pc[c] = "task"
    /\ pc' = [pc EXCEPT ![c] = "done"]
    /\ Finally(lockNameOf[c], c)
    /\ UNCHANGED <<hostVars, engineVars, initVars, predecessorLock, max_tries, body, result,
                   local, interp, response, ended, calls, sideVars>>

\* service.ts:360-370  the task's promise is rejected
TaskThrows(c) ==
    /\ pc[c] = "task"
    /\ pc' = [pc EXCEPT ![c] = "rejected"]
    /\ Finally(lockNameOf[c], c)
    /\ UNCHANGED <<hostVars, engineVars, initVars, predecessorLock, max_tries, body, result,
                   local, interp, response, ended, calls, sideVars>>

NextLock ==
    \/ \E c \in Reqs : Call(c)
    \/ \E c \in Reqs : TaskResume(c)
    \/ \E c \in Reqs : TaskReturns(c)
    \/ \E c \in Reqs : TaskThrows(c)

SpecLock == InitLock /\ [][NextLock]_vars

\* the continuation of a resolved promise runs, and a task that is going to
\* settle does settle
SpecLockFair ==
    /\ SpecLock
    /\ \A c \in Reqs : WF_vars(TaskResume(c))
    /\ \A c \in Reqs : WF_vars(TaskReturns(c) \/ TaskThrows(c))

(***************************************************************************)
(* The catch block of runCode on its own: runPythonAsync has rejected with *)
(* some error text for some code (the text of a Python error is whatever   *)
(* the code made it: raise Exception('File "<exec>", line 12') is code).   *)
(***************************************************************************)
MaxLines == 10
MaxLineNum == 15

\* a code of the given number of lines; consecutive lines differ
LineOf(k) == <<(<<"v", "p", "q">>)[(k % 3) + 1]>>
RECURSIVE CodeOfLines(_)
CodeOfLines(n) == IF n = 1 THEN LineOf(1) ELSE CodeOfLines(n - 1) \o <<"\n">> \o LineOf(n)
EnrichCodes ==
    {CodeOfLines(n) : n \in 1..MaxLines} \cup {CodeOfLines(n) \o <<"\n">> : n \in 1..MaxLines}

LibFrame == Frame("/lib/python312.zip/json/decoder.py", <<3>>)
EnrichMessages ==
    {<<Text("TypeError: x")>>, <<Text("PythonError: Traceback"), LibFrame, Text("ValueError")>>,
     <<Text("PythonError: Traceback"), ExecFrame(<<0, 3>>), Text("Exception")>>}
    \cup {Traceback(n) : n \in 0..MaxLineNum}
    \cup {<<Text("PythonError: Traceback"), ExecFrame(ToDigits(n)), LibFrame,
            ExecFrame(ToDigits(m)), Text("Exception")>> : n, m \in {2, 7}}

InitEnrich ==
    /\ default_files = {[filename |-> n] : n \in SeedDirectory}
    /\ default_file_names = SeedDirectory
    /\ engines = <<[ReadyEngine EXCEPT !.ran = TRUE]>>
    /\ thisPyodide = 1
    /\ interrupt = 0
    /\ out_string = <<>>
    /\ err_string = <<>>
    /\ locksByName = [n \in {PythonRequest} |-> <<1>>]
    /\ unlocked = {}
    /\ initpc = "done"
    /\ initLocal = 1
    /\ pc = [r \in Reqs |-> IF r = 1 THEN "ranPython" ELSE "new"]
    /\ predecessorLock = [r \in Reqs |-> 0]
    /\ max_tries = [r \in Reqs |-> 0]
    /\ \E c \in EnrichCodes :
           body = [r \in Reqs |-> IF r = 1 THEN [code |-> c] ELSE EmptyObject]
    /\ result = [r \in Reqs |-> IF r = 1 THEN [success |-> TRUE] ELSE EmptyObject]
    /\ local = [r \in Reqs |-> IF r = 1 THEN 1 ELSE 0]
    /\ \E m \in EnrichMessages :
           interp = [r \in Reqs |-> IF r = 1
                                    THEN [outcome |-> "raise", value |-> "undefined",
                                          message |-> m]
                                    ELSE NoInterp]
    /\ response = [r \in Reqs |-> <<>>]
    /\ ended = [r \in Reqs |-> FALSE]
    /\ calls = [r \in Reqs |-> IF r = 1 THEN <<"waitForReady", "runCode">> ELSE <<>>]
    /\ lockNameOf = [r \in Reqs |-> PythonRequest]
    /\ codec = IdleCodec

NextEnrich == Collect(1)

SpecEnrich == InitEnrich /\ [][NextEnrich]_vars

(***************************************************************************)
(* bytesToBase64 and base64ToBytes on their own: some bytes are encoded    *)
(* (readFileAsBase64, service.ts:184-187) and the text is decoded again.   *)
(***************************************************************************)
MaxBytes == 3
ByteValues == {0, 1, 2, 3, 15, 16, 63, 64, 127, 128, 254, 255}
RECURSIVE SeqsUpTo(_, _)
SeqsUpTo(S, n) ==
    IF n = 0 THEN {<<>>}
    ELSE LET shorter == SeqsUpTo(S, n - 1) IN
         shorter \cup {Append(q, x) : q \in {p \in shorter : Len(p) = n - 1}, x \in S}

InitBase64 ==
    /\ Constructed
    /\ lockNameOf = [r \in Reqs |-> PythonRequest]
    /\ \E b \in SeqsUpTo(ByteValues, MaxBytes) : codec = [IdleCodec EXCEPT !.pc = "encode", !.bytes = b]

Encode ==
    /\ codec.pc = "encode"
    /\ codec' = [codec EXCEPT !.pc = "decode", !.base64 = bytesToBase64(codec.bytes)]
    /\ UNCHANGED <<hostVars, engineVars, lockVars, initVars, pc, predecessorLock, max_tries,
                   body, result, local, interp, response, ended, calls, lockNameOf>>

Decode ==
    /\ codec.pc = "decode"
    /\ IF AtobThrows(codec.base64)
       THEN codec' = [codec EXCEPT !.pc = "thrown"]
       ELSE codec' = [codec EXCEPT !.pc = "done", !.decoded = base64ToBytes(codec.base64)]
    /\ UNCHANGED <<hostVars, engineVars, lockVars, initVars, pc, predecessorLock, max_tries,
                   body, result, local, interp, response, ended, calls, lockNameOf>>

NextBase64 == Encode \/ Decode

SpecBase64 == InitBase64 /\ [][NextBase64]_vars

(***************************************************************************)
(* Properties.                                                             *)
(***************************************************************************)
Range(seq) == {seq[i] : i \in 1..Len(seq)}

\* the request's task (runRequest) has been started / has been left
Started(r) == pc[r] \notin {"new", "awaitPredecessor"}
Finished(r) == pc[r] \in {"done", "rejected"}

\* the request is between the start of runCode and the end of cleanup()
InRunCode(r) == pc[r] \in {"loadPackagesFromImports", "runPythonAsync", "ranPython",
                           "hung", "haveResult"}
InRecycle(r) == pc[r] \in {"terminate", "loadPyodide", "loadPackage", "imports"}
Executing(r) == InRunCode(r) \/ InRecycle(r)

\* C1: at most one request is between the start of its runCode and the
\* completion of its cleanup(): no runCode starts while another request's
\* runCode, terminate or cleanup is in progress.
C1_OneExecuting ==
    \A r, q \in Reqs : r # q => ~(Executing(r) /\ Executing(q))

\* C1 witness: a request is recycling the engine while another waits its turn
C1_Witness ==
    \E r, q \in Reqs : pc[r] = "loadPyodide" /\ pc[q] = "awaitPredecessor"

\* C2: tasks under one lock name start in the order of their doWithLock
\* calls (the request numbers), none starts before every earlier one has
\* returned or thrown, and a task that never finishes keeps all later ones
\* from starting.
C2_FifoNoOvertaking ==
    \A q, r \in Reqs : q < r /\ Started(r) => Finished(q)

\* C2 witness: a task never finishes and two later tasks are waiting behind it
C2_Witness ==
    \E q, r \in Reqs : q < r /\ pc[q] = "hung" /\ pc[r] = "awaitPredecessor"
                       /\ predecessorLock[r] # q

\* C3: every runCode starts on an engine instance on which no earlier
\* request's code has run.
C3_FreshEngine ==
    \A r \in Reqs : pc[r] = "loadPackagesFromImports" => ~engines[local[r]].ran

\* C4: once a request that called runCode has released its lock, it has
\* called terminate() and then cleanup().
C4_AlwaysRecycled ==
    \A r \in Reqs :
        r \in unlocked /\ "runCode" \in Range(calls[r])
            => calls[r] = <<"waitForReady", "runCode", "terminate", "cleanup">>

\* C5: when a request's task throws, the step that throws removes its token
\* from the queue and unlocks its lock, and it changes no other request; and
\* whoever awaits the lock of a task that has thrown can resume.
C5_ThrowReleasesLock ==
    /\ [](\A r, q \in Reqs :
             pc[r] = "rejected" /\ pc[q] = "awaitPredecessor" /\ predecessorLock[q] = r
                 => ENABLED Resume(q))
    /\ [][\A r \in Reqs :
             pc[r] # "rejected" /\ pc'[r] = "rejected"
                 => /\ r \notin Range(locksByName'[PythonRequest])
                    /\ r \in unlocked'
                    /\ \A q \in Reqs \ {r} : pc'[q] = pc[q] /\ response'[q] = response[q]]_vars

\* C5 witness: a task has thrown and the task that waited for its lock has started
C5_Witness ==
    \E r, q \in Reqs : pc[r] = "rejected" /\ predecessorLock[q] = r /\ Started(q)

\* C6: every request that has been handled has received exactly one reply,
\* and no error has left the handler as a rejection.
C6_OneReplyEach ==
    \A r \in Reqs : /\ pc[r] # "rejected"
                    /\ Finished(r) => Len(response[r]) = 1

\* C7: in every result of runCode exactly one of "error is present" and
\* "success is true" holds.
C7_ErrorXorSuccess ==
    \A r \in Reqs :
        pc[r] = "haveResult" => (("error" \in DOMAIN result[r]) # (result[r].success = TRUE))

\* the files in the home directory that neither loadEnvironment nor the
\* writing of the input files has put there
CreatedByCode(fs, files) ==
    {p \in fs.files : Parent(p) = pythonEnvironmentHomeDir}
        \ ({InHome(n) : n \in SeedDirectory}
           \cup {Join2(pythonEnvironmentHomeDir, n) : n \in InputFileNames(files)})

OutputFilesOf(res) == IF "output_files" \in DOMAIN res THEN res.output_files ELSE {}

\* C8: the output_files of a result hold no default file name and no input
\* filename of the request, and they hold every file the code has created
\* under another name in the home directory.
C8_OutputFiles ==
    \A r \in Reqs :
        pc[r] = "haveResult" =>
            /\ \A n \in OutputFilesOf(result[r]) :
                   /\ n \notin {<<d>> : d \in default_file_names}
                   /\ n \notin InputFileNames(FilesOf(body[r]))
            /\ \A p \in CreatedByCode(engines[local[r]].fs, FilesOf(body[r])) :
                   /\ BaseName(p) \notin default_file_names
                   /\ RelativeToHome(p) \notin InputFileNames(FilesOf(body[r]))
                   => RelativeToHome(p) \in OutputFilesOf(result[r])

HasMalformed(b) == \E i \in 1..Len(FilesOf(b)) : IsMalformed(FilesOf(b)[i])

\* C9: when an entry of the input files lacks a filename or a payload,
\* runCode writes no input file and does not run the code, and its result is
\* a parsing error.
C9_MalformedAborts ==
    \A r \in Reqs :
        InRunCode(r) /\ HasMalformed(body[r]) =>
            /\ engines[local[r]].fs = ReadyEngine.fs
            /\ ~engines[local[r]].ran
            /\ pc[r] = "haveResult" =>
                  /\ result[r].success = FALSE
                  /\ "error" \in DOMAIN result[r]
                  /\ result[r].error.type = "parsing"

\* the code of the body is missing, empty or whitespace-only
Blank(b) == \/ "code" \notin DOMAIN b
            \/ \A i \in 1..Len(b.code) : b.code[i] \in {" ", "\n"}

BelowHome(p) == /\ Len(p) > Len(pythonEnvironmentHomeDir)
                /\ SubSeq(p, 1, Len(pythonEnvironmentHomeDir)) = pythonEnvironmentHomeDir

\* the request has an input file whose filename leads out of the home directory
HasEscaping(b) ==
    \E n \in InputFileNames(FilesOf(b)) : ~BelowHome(Join2(pythonEnvironmentHomeDir, n))

\* C11: an input file whose filename resolves outside the home directory is
\* never written to the sandbox filesystem, and the result of its request is
\* a parsing error.
C11_NoEscape ==
    \A r \in Reqs :
        InRunCode(r) /\ HasEscaping(body[r]) =>
            /\ \A p \in engines[local[r]].fs.files : BelowHome(p)
            /\ pc[r] = "haveResult" =>
                  /\ "error" \in DOMAIN result[r]
                  /\ "type" \in DOMAIN result[r].error
                  /\ result[r].error.type = "parsing"

\* C12: when the submitted code raises, the result has success=false and an
\* error, and it has output_files with the files the code created before it
\* failed.
C12_OutputOnFailure ==
    \A r \in Reqs :
        pc[r] = "haveResult" /\ interp[r].outcome = "raise" =>
            /\ result[r].success = FALSE
            /\ "error" \in DOMAIN result[r]
            /\ "output_files" \in DOMAIN result[r]
            /\ \A p \in CreatedByCode(engines[local[r]].fs, FilesOf(body[r])) :
                   RelativeToHome(p) \in result[r].output_files


\* C13: waitForReady always terminates.  It waits at most MaxTries times
\* (max_tries counts the waits that are over, one more is pending while
\* polling); a pending wait always ends; when a wait ends with the engine
\* loaded the call succeeds, when the last wait ends with the engine still
\* not loaded the call fails, and otherwise it waits once more.
C13_WaitForReadyTerminates ==
    /\ [](\A r \in Reqs :
             /\ max_tries[r] < MaxTries
             /\ pc[r] = "polling" => ENABLED Poll(r))
    /\ [][\A r \in Reqs :
             pc[r] = "polling" /\ (pc'[r] # pc[r] \/ max_tries'[r] # max_tries[r]) =>
                 IF thisPyodide # 0
                 THEN pc'[r] = "ready"
                 ELSE IF max_tries[r] = MaxTries - 1
                      THEN pc'[r] = "rejected"
                      ELSE pc'[r] = "polling" /\ max_tries'[r] = max_tries[r] + 1]_vars

\* the hundredth wait of a call is pending and the engine is not loaded
C13_Witness == \E r \in Reqs : pc[r] = "polling" /\ max_tries[r] = MaxTries - 1 /\ thisPyodide = 0


\* C14: runCode is started only when loadEnvironment() has completed in full:
\* the engine it runs on has the default files, the preloaded packages, the
\* interrupt buffer and the default imports, and no loadEnvironment() is in
\* progress, the one of the initial init() included.
C14_RunCodeOnlyWhenReady ==
    \A r \in Reqs :
        pc[r] = "loadPackagesFromImports" =>
            /\ initpc = "done"
            /\ local[r] # 0
            /\ engines[local[r]] # Discarded
            /\ engines[local[r]].packages
            /\ engines[local[r]].interruptBuffer
            /\ engines[local[r]].imported
            /\ \A n \in default_file_names : InHome(n) \in engines[local[r]].fs.files


\* C15: response bodies are written in the order in which the requests
\* entered doWithLock (the order of their numbers): when a request writes
\* to its response no later request has written to its own, and no other
\* request is between the start of its runCode and its own response.
C15_ResponsesInOrder ==
    [][\A r \in Reqs :
          response'[r] # response[r] =>
              /\ \A q \in Reqs : q > r => response[q] = <<>>
              /\ \A q \in Reqs \ {r} : ~InRunCode(q)]_vars

\* two requests have written their responses while a third one, which
\* entered doWithLock during their execution, is still waiting
C15_Witness ==
    \E q, r, t \in Reqs :
        /\ q < r /\ r < t
        /\ response[q] # <<>> /\ response[r] # <<>>
        /\ pc[t] = "awaitPredecessor"


\* the reference for the error text: the lines of a code are the pieces
\* between its newlines, the cited line is the decimal value of the digits
\* of the first frame of "<exec>"
NewlinesUpTo(code, i) == Cardinality({j \in 1..i : code[j] = "\n"})
LastLine(code) == NewlinesUpTo(code, Len(code)) + 1
NewlineAt(code, k) ==
    IF k = 0 THEN 0
    ELSE IF k = LastLine(code) THEN Len(code) + 1
    ELSE CHOOSE i \in 1..Len(code) : code[i] = "\n" /\ NewlinesUpTo(code, i) = k
SourceLine(code, k) == SubSeq(code, NewlineAt(code, k - 1) + 1, NewlineAt(code, k) - 1)
RECURSIVE DecimalValue(_, _)
DecimalValue(digits, acc) ==
    IF digits = <<>> THEN acc ELSE DecimalValue(Tail(digits), 10 * acc + Head(digits))
CitesExec(msg) == \E i \in 1..Len(msg) : "file" \in DOMAIN msg[i] /\ msg[i].file = "<exec>"
CitedLine(msg) ==
    LET first == CHOOSE i \in 1..Len(msg) :
                     /\ "file" \in DOMAIN msg[i] /\ msg[i].file = "<exec>"
                     /\ \A j \in 1..(i - 1) : ~("file" \in DOMAIN msg[j] /\ msg[j].file = "<exec>")
    IN DecimalValue(msg[first].line, 0)
Listing(code, lo, hi) ==
    [i \in 1..(IF hi < lo THEN 0 ELSE 2 * (hi - lo) + 1) |->
        IF i % 2 = 1
        THEN [number |-> lo + ((i - 1) \div 2), line |-> SourceLine(code, lo + ((i - 1) \div 2))]
        ELSE [text |-> "\n"]]
ReferenceMessage(code, msg) ==
    IF CitesExec(msg)
    THEN LET N == CitedLine(msg) IN
         msg \o <<[text |-> "\n\nCode context:\n"]>>
             \o Listing(code, IF N - 4 > 1 THEN N - 4 ELSE 1,
                              IF N + 4 < LastLine(code) THEN N + 4 ELSE LastLine(code))
    ELSE msg

\* C16: the message of an error caught by runCode is the reference: if the
\* error's text cites a line N of "<exec>" it is the text followed by the
\* "Code context:" block that lists the lines max(1, N-4) .. min(last, N+4)
\* of the code, each with its 1-based number; otherwise it is the text.
C16_ErrorEnrichment ==
    \A r \in Reqs :
        pc[r] = "haveResult" /\ interp[r].outcome = "raise" =>
            /\ "error" \in DOMAIN result[r]
            /\ result[r].error.message = ReferenceMessage(body[r].code, interp[r].message)

\* an error that cites a line in the middle of a long code has been caught:
\* the window is cut at neither end
C16_Witness ==
    \E r \in Reqs :
        /\ pc[r] = "haveResult" /\ interp[r].outcome = "raise"
        /\ CitesExec(interp[r].message)
        /\ CitedLine(interp[r].message) > 4
        /\ CitedLine(interp[r].message) + 4 < LastLine(body[r].code)


C18_StepOrder ==
    \A r \in Reqs :
        "runCode" \in Range(calls[r]) =>
            /\ Started(r) \/ r \in unlocked
            /\ calls[r][1] = "waitForReady" /\ calls[r][2] = "runCode"
            /\ response[r] # <<>> => ~InRunCode(r)
            /\ "terminate" \in Range(calls[r]) =>
                   response[r] # <<>> /\ calls[r][3] = "terminate"
            /\ "cleanup" \in Range(calls[r]) =>
                   "terminate" \in Range(calls[r]) /\ calls[r][4] = "cleanup"
            /\ ended[r] => "cleanup" \in Range(calls[r]) /\ ~InRecycle(r)
            /\ r \in unlocked => ended[r] /\ response[r] # <<>>


\* C19: no wake-up is lost: a caller that waits in doWithLock starts its
\* task eventually, unless a task under its lock name never finishes.
C19_NoLostWakeup ==
    \A c \in Reqs :
        (pc[c] = "awaitPredecessor")
            ~> (\/ Started(c)
                \/ \E q \in Reqs \ {c} : lockNameOf[q] = lockNameOf[c] /\ pc[q] = "hung")

\* the lock a caller awaits is unlocked, the caller has not resumed yet,
\* and a later caller has arrived in between and awaits the former
C19_Witness ==
    \E c, n \in Reqs :
        /\ pc[c] = "awaitPredecessor" /\ predecessorLock[c] \in unlocked
        /\ pc[n] = "awaitPredecessor" /\ predecessorLock[n] = c

\* C20: tasks under distinct lock names are independent: a caller only ever
\* awaits the lock of a caller of its own lock name, the queue of a name
\* holds callers of that name only, and a caller that finds no unfinished
\* task under its own name starts its task in its call, whatever the tasks
\* of other names do.
C20_NamesIndependent ==
    /\ [](/\ \A c \in Reqs : pc[c] = "awaitPredecessor" =>
                 lockNameOf[predecessorLock[c]] = lockNameOf[c]
          /\ \A n \in DOMAIN locksByName : \A i \in 1..Len(locksByName[n]) :
                 lockNameOf[locksByName[n][i]] = n)
    /\ [][\A c \in Reqs :
             /\ pc[c] = "new" /\ pc'[c] # "new"
             /\ \A q \in Reqs \ {c} : lockNameOf[q] = lockNameOf[c] => pc[q] \in {"new", "done", "rejected"}
             => pc'[c] \in {"task", "hung"}]_vars

\* a caller has started its task in its call while a task under another
\* name was running and had a caller waiting for it
C20_Witness ==
    \E c, q, w \in Reqs :
        /\ q < w /\ w < c
        /\ lockNameOf[q] # lockNameOf[c] /\ lockNameOf[w] = lockNameOf[q]
        /\ pc[q] = "task" /\ pc[w] = "awaitPredecessor" /\ pc[c] = "task"


\* the caller has called doWithLock and its task has not finished
Pending(c) == pc[c] \notin {"new", "done", "rejected"}

\* the callers of a lock name whose tasks run or wait, in the order of
\* their calls
RECURSIVE PendingFrom(_, _)
PendingFrom(n, c) ==
    IF c > NumReq THEN <<>>
    ELSE (IF lockNameOf[c] = n /\ Pending(c) THEN <<c>> ELSE <<>>) \o PendingFrom(n, c + 1)

\* C21 as stated: the registry has an entry for a lock name exactly while
\* the name has a running or waiting task.
C21_Original ==
    \A n \in LockNames :
        n \in DOMAIN locksByName <=> \E c \in Reqs : lockNameOf[c] = n /\ Pending(c)

\* C21 amended: the registry has an entry for a lock name from the first
\* call that names it, for ever; the queue of the entry holds the callers
\* of the name whose tasks run or wait, in the order of their calls, and is
\* empty once all of them have finished.
C21_EntryKept ==
    /\ [](\A n \in LockNames :
             /\ n \in DOMAIN locksByName <=> \E c \in Reqs : lockNameOf[c] = n /\ pc[c] # "new"
             /\ n \in DOMAIN locksByName => locksByName[n] = PendingFrom(n, 1))
    /\ [][DOMAIN locksByName \subseteq DOMAIN locksByName']_vars

\* every task under a lock name has finished and the name's entry is still
\* in the registry, with an empty queue
C21_Witness ==
    \E n \in DOMAIN locksByName :
        /\ locksByName[n] = <<>>
        /\ \E c \in Reqs : lockNameOf[c] = n /\ pc[c] \in {"done", "rejected"}
        /\ \A c \in Reqs : lockNameOf[c] = n => pc[c] \in {"done", "rejected"}


\* C22: the default files are loaded by init()'s prepareEnvironment and by
\* nothing else: default_files and default_file_names change in that one
\* step, to the files of the seed directory, and no step of a request
\* (runCode, terminate, cleanup) changes them; and every instance that a
\* loadEnvironment installs as this.pyodide is new and has all the default
\* files in its home directory from the step that installs it.
C22_DefaultFiles ==
    /\ [](initpc # "prepareEnvironment" =>
             /\ default_file_names = SeedDirectory
             /\ default_files = {[filename |-> n] : n \in SeedDirectory})
    /\ [][/\ (default_files' # default_files \/ default_file_names' # default_file_names)
                 => initpc = "prepareEnvironment" /\ initpc' # "prepareEnvironment"
                    /\ pc' = pc /\ response' = response
          /\ thisPyodide' # thisPyodide =>
                 /\ thisPyodide' = Len(engines) + 1
                 /\ Len(engines') = Len(engines) + 1
                 /\ ~engines'[thisPyodide'].ran
                 /\ \A n \in default_file_names :
                        InHome(n) \in engines'[thisPyodide'].fs.files]_vars

\* a cleanup() has installed a second instance, with the default files
C22_Witness ==
    \E r \in Reqs :
        /\ pc[r] = "loadPackage" /\ Len(engines) > 1 /\ thisPyodide = Len(engines)
        /\ default_file_names # {}
        /\ \A n \in default_file_names : InHome(n) \in engines[thisPyodide].fs.files


\* C23: the std_out and std_err of a request's result have no output from
\* the time an earlier request's code was running: when a request's runCode
\* has started and its code has not run yet, out_string and err_string are
\* empty (they are what runCode puts into the result, after its own code's
\* output was added to them).
C23_NoStaleOutput ==
    \A r \in Reqs :
        pc[r] \in {"loadPackagesFromImports", "runPythonAsync"} =>
            out_string = <<>> /\ err_string = <<>>


\* C24: the interrupt flag is 0 whenever a runCode starts and until its
\* code runs; terminate() sets the flag to 1; the loadEnvironment that
\* follows sets it to 0 in the step that calls loadPyodide, so every new
\* instance is created with the flag at 0.
C24_InterruptClear ==
    /\ [](\A r \in Reqs :
             pc[r] \in {"loadPackagesFromImports", "runPythonAsync"} => interrupt = 0)
    /\ [][/\ \A r \in Reqs :
                /\ pc[r] # "terminate" /\ pc'[r] = "terminate" => interrupt' = 1
                /\ pc[r] = "terminate" /\ pc'[r] # "terminate" =>
                       pc'[r] = "loadPyodide" /\ interrupt' = 0 /\ engines' = engines
          /\ Len(engines') > Len(engines) => interrupt = 0 /\ interrupt' = 0]_vars

\* a request's code is about to run after an earlier request has called
\* terminate()
C24_Witness ==
    \E q, r \in Reqs :
        /\ q < r
        /\ "terminate" \in Range(calls[q])
        /\ pc[r] = "runPythonAsync"
        /\ engines[local[r]].interruptBuffer

====
